---------------------------- MODULE Spec2Model ----------------------------
(***************************************************************************)
(* A model of create_bookmark.py (PDF Auto Booker): the command line       *)
(* entry point and add_bookmarks, which reads an indented table of         *)
(* contents and creates a nested outline with a parent stack.              *)
(*                                                                         *)
(* Text is modelled as sequences of one-character strings; a TOC file is   *)
(* the sequence of lines readlines() returns, each ending in "\n".         *)
(***************************************************************************)
EXTENDS Integers, Sequences, FiniteSets, TLC

VARIABLES
    argv_offset,    \* the integer sys.argv[4] denotes (when it denotes one)
    pdf_page_count, \* number of pages of the input PDF
    toc_text,       \* content of the TOC file, as readlines() returns it
    pc,             \* position of the run
    page_offset,    \* PAGE_OFFSET / page_offset
    total_pages,    \* total_pages
    lines,          \* lines
    indent_unit,    \* indent_unit (0 before it is computed)
    line_num,       \* line_num: number of lines the loop has consumed
    parent_stack,   \* parent_stack: sequence of <<bookmark, level>>
    outline,        \* the writer's outline items, in creation order
    origin,         \* history: for each outline item, the line and level it came from
    warnings,       \* history: the warnings printed, each with its line number
    error,          \* which error message ended the run ("none" if none)
    written,        \* TRUE once the output document has been written
    status          \* process exit status, meaningful when pc = "exit"

vars == <<argv_offset, pdf_page_count, toc_text, pc, page_offset, total_pages,
          lines, indent_unit, line_num, parent_stack, outline, origin,
          warnings, error, written, status>>

inputs == <<argv_offset, pdf_page_count, toc_text>>

-----------------------------------------------------------------------------
(* Bounds of the input space.                                              *)

\* longest TOC file of the general family (blank, malformed, out-of-range lines)
MaxLines == 3
\* longest TOC file of the nesting family (tab-indented entries)
MaxTreeLines == 4
\* longest leading whitespace (in characters) of the indentation family
MaxIndentChars == 3
\* longest line (in characters, without the newline) of the parsing family
MaxParseChars == 5

-----------------------------------------------------------------------------
(* Program constants.                                                      *)

TAB_SIZE == 4
DEFAULT_INDENT_UNIT == 4
EXPECTED_ARGC == 5

None == 0   \* Python's None as a parent reference; bookmarks are numbered from 1

-----------------------------------------------------------------------------
(* str methods and re.search, as the code uses them.                       *)

IsSpace(c) == c \in {" ", "\t", "\n"}
IsDigit(c) == c \in {"0", "1", "2", "3", "4", "5", "6", "7", "8", "9"}

DigitVal(c) ==
    CASE c = "0" -> 0 [] c = "1" -> 1 [] c = "2" -> 2 [] c = "3" -> 3
      [] c = "4" -> 4 [] c = "5" -> 5 [] c = "6" -> 6 [] c = "7" -> 7
      [] c = "8" -> 8 [] c = "9" -> 9

Spaces(n) == [i \in 1..n |-> " "]

RECURSIVE expandtabs_from(_, _, _)
expandtabs_from(s, tabsize, col) ==
    IF s = <<>> THEN <<>>
    ELSE LET c == Head(s) IN
         IF c = "\t"
         THEN LET incr == tabsize - (col % tabsize)
              IN Spaces(incr) \o expandtabs_from(Tail(s), tabsize, col + incr)
         ELSE IF c = "\n"
         THEN <<c>> \o expandtabs_from(Tail(s), tabsize, 0)
         ELSE <<c>> \o expandtabs_from(Tail(s), tabsize, col + 1)

\* str.expandtabs(tabsize): a tab advances to the next multiple of tabsize
expandtabs(s, tabsize) == expandtabs_from(s, tabsize, 0)

RECURSIVE lstrip(_)
lstrip(s) ==
    IF s # <<>> /\ IsSpace(Head(s)) THEN lstrip(Tail(s)) ELSE s

RECURSIVE rstrip(_)
rstrip(s) ==
    IF s # <<>> /\ IsSpace(s[Len(s)]) THEN rstrip(SubSeq(s, 1, Len(s) - 1)) ELSE s

strip(s) == rstrip(lstrip(s))

RECURSIVE int(_)
int(s) ==
    IF s = <<>> THEN 0
    ELSE int(SubSeq(s, 1, Len(s) - 1)) * 10 + DigitVal(s[Len(s)])

Max(S) == CHOOSE x \in S : \A y \in S : y <= x

\* variant: the pattern r'^(.*)\s*(\d+)$', where greedy (.*) leaves one digit
re_search_optional_space(s) ==
    IF s # <<>> /\ IsDigit(s[Len(s)]) /\ \A i \in 1..(Len(s) - 1) : s[i] # "\n"
    THEN [matched |-> TRUE,
          group1  |-> SubSeq(s, 1, Len(s) - 1),
          group2  |-> SubSeq(s, Len(s), Len(s))]
    ELSE [matched |-> FALSE, group1 |-> <<>>, group2 |-> <<>>]

\* re.search(r'^(.*)\s+(\d+)$', s): group 1 is s[1..k], \s+ is s[k+1..m] and
\* group 2 is s[m+1..Len(s)]; (.*) is greedy, then \s+ is greedy.
re_search(s) ==
    LET splits == { km \in (0..Len(s)) \X (0..Len(s)) :
                      /\ km[1] < km[2]
                      /\ km[2] < Len(s)
                      /\ \A i \in 1..km[1] : s[i] # "\n"
                      /\ \A i \in (km[1] + 1)..km[2] : IsSpace(s[i])
                      /\ \A i \in (km[2] + 1)..Len(s) : IsDigit(s[i]) }
    IN IF splits = {} THEN [matched |-> FALSE, group1 |-> <<>>, group2 |-> <<>>]
       ELSE LET k == Max({km[1] : km \in splits})
                m == Max({km[2] : km \in {x \in splits : x[1] = k}})
            IN [matched |-> TRUE,
                group1  |-> SubSeq(s, 1, k),
                group2  |-> SubSeq(s, m + 1, Len(s))]

-----------------------------------------------------------------------------
(* Indentation unit detection.                                             *)

RECURSIVE gcd(_, _)
gcd(a, b) == IF b = 0 THEN a ELSE gcd(b, a % b)

RECURSIVE reduce_gcd(_)
reduce_gcd(sizes) ==
    IF Len(sizes) = 1 THEN sizes[1]
    ELSE gcd(reduce_gcd(SubSeq(sizes, 1, Len(sizes) - 1)), sizes[Len(sizes)])

min(sizes) ==
    CHOOSE x \in {sizes[i] : i \in 1..Len(sizes)} :
        \A i \in 1..Len(sizes) : x <= sizes[i]

\* len(expanded) - len(expanded.lstrip()) of a line
indent_size_of(line) ==
    LET expanded == expandtabs(line, TAB_SIZE)
    IN Len(expanded) - Len(lstrip(expanded))

\* variant: only lines that match the title/page pattern are measured
RECURSIVE indent_sizes_of_matching(_)
indent_sizes_of_matching(ls) ==
    IF ls = <<>> THEN <<>>
    ELSE LET raw_line == ls[Len(ls)]
             expanded == expandtabs(raw_line, TAB_SIZE)
             stripped == lstrip(expanded)
             indent_size == Len(expanded) - Len(stripped)
             before == indent_sizes_of_matching(SubSeq(ls, 1, Len(ls) - 1))
         IN IF stripped = <<>> \/ ~re_search(strip(raw_line)).matched THEN before
            ELSE IF indent_size > 0 THEN Append(before, indent_size)
            ELSE before

RECURSIVE indent_sizes_of(_)
indent_sizes_of(ls) ==
    IF ls = <<>> THEN <<>>
    ELSE LET raw_line == ls[Len(ls)]
             expanded == expandtabs(raw_line, TAB_SIZE)
             stripped == lstrip(expanded)
             indent_size == Len(expanded) - Len(stripped)
             before == indent_sizes_of(SubSeq(ls, 1, Len(ls) - 1))
         IN IF stripped = <<>> THEN before
            ELSE IF indent_size > 0 THEN Append(before, indent_size)
            ELSE before

\* variant: falls back to the largest width when the GCD is 1
detect_indent_unit_max(ls) ==
    LET indent_sizes == indent_sizes_of(ls)
    IN IF indent_sizes # <<>>
       THEN LET g == reduce_gcd(indent_sizes)
            IN IF g = 1 THEN Max({indent_sizes[i] : i \in 1..Len(indent_sizes)})
               ELSE g
       ELSE DEFAULT_INDENT_UNIT

\* variant: no fallback to the minimum when the GCD is 1
detect_indent_unit_gcd_only(ls) ==
    LET indent_sizes == indent_sizes_of(ls)
    IN IF indent_sizes # <<>> THEN reduce_gcd(indent_sizes)
       ELSE DEFAULT_INDENT_UNIT

detect_indent_unit(ls) ==
    LET indent_sizes == indent_sizes_of(ls)
    IN IF indent_sizes # <<>>
       THEN LET g == reduce_gcd(indent_sizes)
            IN IF g = 1 THEN min(indent_sizes) ELSE g
       ELSE DEFAULT_INDENT_UNIT

-----------------------------------------------------------------------------
(* The per-line steps of the hierarchy pass.                               *)

\* variant: the indentation width itself is taken as the level
level_of_width(line, unit) == indent_size_of(line)

level_of(line, unit) == indent_size_of(line) \div unit

\* variant: the logical page used as a 0-based index
dest_page_index_of_no_shift(page_num_str, offset) == int(page_num_str) + offset

dest_page_index_of(page_num_str, offset) == (int(page_num_str) - 1) + offset

\* variant: off-by-one upper limit
out_of_range_inclusive(dest_page_index, total) ==
    dest_page_index < 0 \/ dest_page_index > total

out_of_range(dest_page_index, total) ==
    dest_page_index < 0 \/ dest_page_index >= total

\* variant: "if" in place of "while": at most one entry is popped
pop_stack_once(stack, level) ==
    IF stack # <<>> /\ stack[Len(stack)][2] >= level
    THEN SubSeq(stack, 1, Len(stack) - 1)
    ELSE stack

\* variant: pops only entries strictly deeper than the current level
RECURSIVE pop_stack_deeper_only(_, _)
pop_stack_deeper_only(stack, level) ==
    IF stack # <<>> /\ stack[Len(stack)][2] > level
    THEN pop_stack_deeper_only(SubSeq(stack, 1, Len(stack) - 1), level)
    ELSE stack

RECURSIVE pop_stack(_, _)
pop_stack(stack, level) ==
    IF stack # <<>> /\ stack[Len(stack)][2] >= level
    THEN pop_stack(SubSeq(stack, 1, Len(stack) - 1), level)
    ELSE stack

\* variant: takes the bottom of the stack as the parent
parent_of_bottom(stack) == IF stack # <<>> THEN stack[1][1] ELSE None

parent_of(stack) == IF stack # <<>> THEN stack[Len(stack)][1] ELSE None

\* variant: the new item is inserted before the existing ones
add_outline_item_first(items, title, dest_page_index, parent) ==
    <<[title |-> title, page |-> dest_page_index, parent |-> parent]>> \o items

add_outline_item(items, title, dest_page_index, parent) ==
    Append(items, [title |-> title, page |-> dest_page_index, parent |-> parent])

\* variant: the stack is emptied before the push
stack_after_line_reset(stack, skipped, level, bookmark) ==
    IF skipped THEN stack
    ELSE <<<<bookmark, level>>>>

\* variant: pushes without popping
stack_after_line_no_pop(stack, skipped, level, bookmark) ==
    IF skipped THEN stack
    ELSE Append(stack, <<bookmark, level>>)

\* variant: the pop loop runs before the line is validated
stack_after_line_pop_first(stack, skipped, level, bookmark) ==
    IF skipped THEN pop_stack(stack, level)
    ELSE Append(pop_stack(stack, level), <<bookmark, level>>)

\* the stack after one iteration of the loop: a skipped line leaves before the
\* pop loop is reached
stack_after_line(stack, skipped, level, bookmark) ==
    IF skipped THEN stack
    ELSE Append(pop_stack(stack, level), <<bookmark, level>>)

\* variant: the error handler exits with status 0
exit_status_always_zero(raised) == 0

exit_status(raised) == IF raised THEN 1 ELSE 0

-----------------------------------------------------------------------------
(* Inputs.                                                                 *)

NL == <<"\n">>

SeqsUpTo(S, n) == UNION {[1..k -> S] : k \in 0..n}

\* general family: blank, malformed and out-of-range lines, page 0
GenIndents == {<<>>, <<" ">>}
GenBodies == {<<>>, <<"a", " ", "b">>, <<"a", " ", "0">>, <<"a", " ", "1">>,
              <<"a", " ", "2">>}
GenLines == {i \o b \o NL : i \in GenIndents, b \in GenBodies}
\* <<page_offset, pages of the PDF>>
GenConfigs == {<<-1, 5>>, <<0, 1>>, <<16, 17>>}

\* nesting family: entries indented by 0..3 tabs
TreeIndents == {<<>>, <<"\t">>, <<"\t", "\t">>, <<"\t", "\t", "\t">>}
TreeBodies == {<<"a", " ", "1">>}
TreeLines == {i \o b \o NL : i \in TreeIndents, b \in TreeBodies}

\* indentation family: two-line files with every mix of spaces and tabs as
\* leading whitespace
UnitIndents == SeqsUpTo({" ", "\t"}, MaxIndentChars)
UnitLines == {i \o <<"a", " ", "1">> \o NL : i \in UnitIndents}

\* parsing family: one-line files holding every text over letters, digits,
\* spaces and tabs
ParseLines == {t \o NL : t \in SeqsUpTo({"a", "1", " ", "\t"}, MaxParseChars)}

Inputs ==
    ({<<c[1], c[2], f>> : c \in GenConfigs, f \in SeqsUpTo(GenLines, MaxLines)})
    \cup {<<0, 5, f>> : f \in SeqsUpTo(TreeLines, MaxTreeLines)}
    \cup {<<0, 5, <<a, b>>>> : a \in UnitLines, b \in UnitLines}
    \cup {<<0, 5, <<a>>>> : a \in ParseLines}

-----------------------------------------------------------------------------
(* The run.                                                                *)

Init ==
    /\ \E i \in Inputs :
         /\ argv_offset = i[1]
         /\ pdf_page_count = i[2]
         /\ toc_text = i[3]
    /\ pc = "main"
    /\ page_offset = 0
    /\ total_pages = 0
    /\ lines = <<>>
    /\ indent_unit = 0
    /\ line_num = 0
    /\ parent_stack = <<>>
    /\ outline = <<>>
    /\ origin = <<>>
    /\ warnings = <<>>
    /\ error = "none"
    /\ written = FALSE
    /\ status = 0

\* sys.exit(1) after an error message
Fail(msg) ==
    /\ pc' = "exit"
    /\ error' = msg
    /\ status' = exit_status(TRUE)

\* __main__: argument count, int(sys.argv[4])
Main ==
    /\ pc = "main"
    /\ \E argc \in {4, 5, 6}, offset_is_int \in BOOLEAN :
         IF argc # EXPECTED_ARGC
         THEN Fail("usage") /\ UNCHANGED page_offset
         ELSE IF ~offset_is_int
         THEN Fail("offset_not_integer") /\ UNCHANGED page_offset
         ELSE /\ page_offset' = argv_offset
              /\ pc' = "check_paths"
              /\ UNCHANGED <<error, status>>
    /\ UNCHANGED <<inputs, total_pages, lines, indent_unit, line_num,
                   parent_stack, outline, origin, warnings, written>>

\* add_bookmarks: the three existence checks
CheckPaths ==
    /\ pc = "check_paths"
    /\ \E pdf_is_file \in BOOLEAN, toc_is_file \in BOOLEAN,
          output_dir_exists \in BOOLEAN :
         IF ~pdf_is_file THEN Fail("pdf_missing")
         ELSE IF ~toc_is_file THEN Fail("toc_missing")
         ELSE IF ~output_dir_exists THEN Fail("output_dir_missing")
         ELSE pc' = "read_pdf" /\ UNCHANGED <<error, status>>
    /\ UNCHANGED <<inputs, page_offset, total_pages, lines, indent_unit,
                   line_num, parent_stack, outline, origin, warnings, written>>

\* add_bookmarks: PdfReader, is_encrypted, len(reader.pages), page copy
ReadPdf ==
    /\ pc = "read_pdf"
    /\ \E readable \in BOOLEAN, is_encrypted \in BOOLEAN :
         IF ~readable \/ is_encrypted
         THEN Fail("pdf_unreadable") /\ UNCHANGED total_pages
         ELSE /\ total_pages' = pdf_page_count
              /\ pc' = "read_toc"
              /\ UNCHANGED <<error, status>>
    /\ UNCHANGED <<inputs, page_offset, lines, indent_unit, line_num,
                   parent_stack, outline, origin, warnings, written>>

\* add_bookmarks: parent_stack = [], f.readlines()
ReadToc ==
    /\ pc = "read_toc"
    /\ \E readable \in BOOLEAN :
         IF ~readable
         THEN Fail("toc_unreadable") /\ UNCHANGED <<lines, parent_stack>>
         ELSE /\ lines' = toc_text
              /\ parent_stack' = <<>>
              /\ pc' = "detect"
              /\ UNCHANGED <<error, status>>
    /\ UNCHANGED <<inputs, page_offset, total_pages, indent_unit, line_num,
                   outline, origin, warnings, written>>

\* add_bookmarks: indent unit detection, line_num = 0
DetectIndent ==
    /\ pc = "detect"
    /\ indent_unit' = detect_indent_unit(lines)
    /\ line_num' = 0
    /\ pc' = "loop"
    /\ UNCHANGED <<inputs, page_offset, total_pages, lines, parent_stack,
                   outline, origin, warnings, error, written, status>>

\* add_bookmarks: one iteration of "for line in lines"
ProcessLine ==
    /\ pc = "loop"
    /\ line_num < Len(lines)
    /\ LET n == line_num + 1
           line == rstrip(lines[n])
           stripped_line == strip(line)
           level == level_of(line, indent_unit)
           match == re_search(stripped_line)
           title == strip(match.group1)
           page_num_str == match.group2
           dest_page_index == dest_page_index_of(page_num_str, page_offset)
           blank == stripped_line = <<>>
           malformed == ~blank /\ ~match.matched
           rejected == ~blank /\ match.matched
                         /\ out_of_range(dest_page_index, total_pages)
           skipped == blank \/ malformed \/ rejected
           parent == parent_of(pop_stack(parent_stack, level))
           bookmark == Len(outline) + 1
       IN /\ line_num' = n
          /\ parent_stack' = stack_after_line(parent_stack, skipped, level, bookmark)
          /\ warnings' =
                IF malformed
                THEN Append(warnings, [line |-> n, kind |-> "malformed"])
                ELSE IF rejected
                THEN Append(warnings, [line |-> n, kind |-> "out_of_range"])
                ELSE warnings
          /\ IF skipped
             THEN UNCHANGED <<outline, origin>>
             ELSE /\ outline' = add_outline_item(outline, title, dest_page_index, parent)
                  /\ origin' = Append(origin, [line |-> n, level |-> level])
    /\ UNCHANGED <<inputs, pc, page_offset, total_pages, lines, indent_unit,
                   error, written, status>>

\* add_bookmarks: writer.write, then the normal end of __main__
Save ==
    /\ pc = "loop"
    /\ line_num = Len(lines)
    /\ \E write_ok \in BOOLEAN :
         /\ written' = write_ok
         /\ error' = IF write_ok THEN "none" ELSE "write_failed"
         /\ status' = exit_status(~write_ok)
    /\ pc' = "exit"
    /\ UNCHANGED <<inputs, page_offset, total_pages, lines, indent_unit,
                   line_num, parent_stack, outline, origin, warnings>>

Next ==
    \/ Main
    \/ CheckPaths
    \/ ReadPdf
    \/ ReadToc
    \/ DetectIndent
    \/ ProcessLine
    \/ Save

Spec == Init /\ [][Next]_vars

-----------------------------------------------------------------------------
(* Vocabulary of the properties, stated on the input text and the outline, *)
(* independently of the steps above.                                       *)

NodeIds == 1..Len(outline)

LevelOfNode(i) == origin[i].level
LineOfNode(i) == origin[i].line

\* the content of line n without surrounding whitespace
Content(n) == strip(lines[n])

IsBlankLine(n) == \A i \in 1..Len(lines[n]) : IsSpace(lines[n][i])

\* the content ends in whitespace followed by a run of digits
HasTrailingPage(s) ==
    \E p \in 1..(Len(s) - 1) :
        /\ IsSpace(s[p])
        /\ \A q \in (p + 1)..Len(s) : IsDigit(s[q])

\* the digits after the last whitespace character of the content
LastToken(s) ==
    LET p == Max({q \in 1..Len(s) : IsSpace(s[q])})
    IN SubSeq(s, p + 1, Len(s))

LogicalPage(n) == int(LastToken(Content(n)))

PhysicalIndex(n) == (LogicalPage(n) - 1) + page_offset

IsMalformedLine(n) == ~IsBlankLine(n) /\ ~HasTrailingPage(Content(n))

IsOutOfRangeLine(n) ==
    /\ ~IsBlankLine(n)
    /\ HasTrailingPage(Content(n))
    /\ (PhysicalIndex(n) < 0 \/ PhysicalIndex(n) >= total_pages)

IsAcceptedLine(n) ==
    /\ ~IsBlankLine(n)
    /\ HasTrailingPage(Content(n))
    /\ 0 <= PhysicalIndex(n)
    /\ PhysicalIndex(n) < total_pages

RECURSIVE Depth(_)
Depth(i) == IF outline[i].parent = None THEN 0 ELSE 1 + Depth(outline[i].parent)

Levels == [i \in NodeIds |-> LevelOfNode(i)]

-----------------------------------------------------------------------------
(* C1 *)

\* C1: every outline node's parent is the most recent earlier node whose level
\* is strictly less than its own, and it is a root when there is none.
C1_ParentIsNearestShallower ==
    \A i \in NodeIds :
        LET shallower == {j \in 1..(i - 1) : LevelOfNode(j) < LevelOfNode(i)}
        IN outline[i].parent = IF shallower = {} THEN None ELSE Max(shallower)

\* accepted levels [0,1,2,0]: the fourth node is a root, like the first
C1_Witness ==
    /\ Levels = <<0, 1, 2, 0>>
    /\ outline[3].parent = 2
    /\ outline[4].parent = None
    /\ outline[1].parent = None

-----------------------------------------------------------------------------
(* C2 *)

\* C2: between two processed lines the levels on parent_stack strictly increase
\* from bottom to top.
C2_StackStrictlyIncreasing ==
    \A i \in 1..(Len(parent_stack) - 1) :
        parent_stack[i][2] < parent_stack[i + 1][2]

\* a malformed line has just been skipped while two entries are on the stack
C2_Witness ==
    /\ pc = "loop"
    /\ Len(parent_stack) >= 2
    /\ line_num >= 1
    /\ IsMalformedLine(line_num)

-----------------------------------------------------------------------------
(* C3 *)

\* C3 as stated: the depth of every node equals its indentation level.
C3_DepthEqualsLevel ==
    \A i \in NodeIds : Depth(i) = LevelOfNode(i)

\* the accepted entries up to node i start at level 0 and never go more than
\* one level deeper than the accepted entry before them
NoLevelGapUpTo(i) ==
    /\ LevelOfNode(1) = 0
    /\ \A j \in 2..i : LevelOfNode(j) <= LevelOfNode(j - 1) + 1

\* C3 amended: the nodes form a forest (a parent is an earlier node or none),
\* the depth of every node is at most its indentation level, and it equals the
\* level as long as the accepted levels start at 0 and have had no gap.
C3_DepthAtMostLevel ==
    \A i \in NodeIds :
        /\ outline[i].parent \in 0..(i - 1)
        /\ Depth(i) <= LevelOfNode(i)
        /\ NoLevelGapUpTo(i) => Depth(i) = LevelOfNode(i)

\* a level-3 entry directly under a level-0 entry: depth 1, level 3
C3_Witness ==
    /\ Len(outline) >= 2
    /\ LevelOfNode(1) = 0
    /\ LevelOfNode(2) = 3
    /\ outline[2].parent = 1
    /\ Depth(2) = 1
-----------------------------------------------------------------------------
(* C4 *)

\* the run reached the save step (whether or not the write succeeded)
ReachedSave == pc = "exit" /\ error \in {"none", "write_failed"}

\* C4: the outline nodes are exactly the lines consumed so far that are
\* non-blank, match the title/page pattern and map to an in-range physical
\* index, one node per such line; at the save step every line has been
\* consumed.
C4_NodeCountIsAcceptedCount ==
    LET accepted == {n \in 1..line_num : IsAcceptedLine(n)}
    IN /\ Len(outline) = Cardinality(accepted)
       /\ {LineOfNode(i) : i \in NodeIds} = accepted
       /\ ReachedSave => line_num = Len(lines)

\* a finished run with a blank line, a warned line and a node
C4_Witness ==
    /\ ReachedSave
    /\ Len(lines) = 3
    /\ Len(outline) = 1
    /\ Len(warnings) = 1
    /\ \E n \in 1..Len(lines) : IsBlankLine(n)

-----------------------------------------------------------------------------
(* C5 *)

\* C5: every node's page index is (logical page - 1) + offset and lies in
\* 0..total_pages-1; a consumed line whose index falls outside creates no
\* node; logical page 1 maps to 16 under offset 16 and creates no node under
\* offset -1.
C5_PageIndexMapped ==
    /\ \A i \in NodeIds :
         /\ outline[i].page = (LogicalPage(LineOfNode(i)) - 1) + page_offset
         /\ 0 <= outline[i].page
         /\ outline[i].page < total_pages
    /\ \A n \in 1..line_num :
         IsOutOfRangeLine(n) => \A i \in NodeIds : LineOfNode(i) # n
    /\ \A i \in NodeIds :
         LogicalPage(LineOfNode(i)) = 1 =>
            /\ page_offset # -1
            /\ page_offset = 16 => outline[i].page = 16

\* logical page 1 under offset 16 in a 17-page document: index 16
C5_Witness ==
    /\ page_offset = 16
    /\ total_pages > 16
    /\ \E i \in NodeIds :
         /\ LogicalPage(LineOfNode(i)) = 1
         /\ outline[i].page = 16

-----------------------------------------------------------------------------
(* C6 *)

IsSkippedLine(n) == IsBlankLine(n) \/ IsMalformedLine(n) \/ IsOutOfRangeLine(n)

\* C6: the step that consumes a blank, malformed or out-of-range line leaves
\* parent_stack and the outline unchanged and moves on to the next line.
C6_SkipLeavesStackAndOutline ==
    [][(pc = "loop" /\ line_num < Len(lines) /\ IsSkippedLine(line_num + 1))
        => /\ parent_stack' = parent_stack
           /\ outline' = outline
           /\ line_num' = line_num + 1
           /\ pc' = "loop"]_vars

\* an out-of-range line at level 0 has just been skipped under a level-1 entry
C6_Witness ==
    /\ pc = "loop"
    /\ line_num >= 1
    /\ IsOutOfRangeLine(line_num)
    /\ level_of(rstrip(lines[line_num]), indent_unit) = 0
    /\ Len(parent_stack) = 2
    /\ parent_stack[2][2] = 1

-----------------------------------------------------------------------------
(* C7 *)

\* the positive leading-whitespace widths of the non-blank lines
Widths ==
    {w \in {indent_size_of(lines[n]) : n \in {m \in 1..Len(lines) : ~IsBlankLine(m)}} :
        w > 0}

Divides(d, w) == w % d = 0

\* the greatest common divisor of a non-empty set of positive integers
GCDOf(W) ==
    Max({d \in 1..Max(W) : \A w \in W : Divides(d, w)})

MinOf(W) == CHOOSE x \in W : \A y \in W : x <= y

ExpectedUnit ==
    IF Widths = {} THEN 4
    ELSE IF GCDOf(Widths) = 1 THEN MinOf(Widths)
    ELSE GCDOf(Widths)

UnitComputed == pc = "loop" \/ (pc = "exit" /\ error \in {"none", "write_failed"})

-----------------------------------------------------------------------------
(* C8 *)

\* C8: every outline node comes from a line whose logical page number is >= 1.
C8_LogicalPagePositive ==
    \A i \in NodeIds : LogicalPage(LineOfNode(i)) >= 1

-----------------------------------------------------------------------------
(* C9 *)

\* C9: a step either leaves the outline as it is or adds one node after all
\* existing ones, and that node comes from a later line than every existing
\* node; so siblings are ordered by line number.
C9_CreatedInLineOrder ==
    [][\/ outline' = outline
       \/ /\ Len(outline') = Len(outline) + 1
          /\ SubSeq(outline', 1, Len(outline)) = outline
          /\ Len(origin') = Len(outline')
          /\ \A i \in 1..Len(outline) :
                origin'[i].line < origin'[Len(outline')].line]_vars

\* two roots with a child of the first between them
C9_Witness ==
    /\ Len(outline) = 3
    /\ outline[1].parent = None
    /\ outline[2].parent = 1
    /\ outline[3].parent = None
    /\ LineOfNode(1) < LineOfNode(2)
    /\ LineOfNode(2) < LineOfNode(3)

-----------------------------------------------------------------------------
(* C10 *)

EarlyErrors == {"usage", "offset_not_integer", "pdf_missing", "toc_missing",
                "output_dir_missing", "pdf_unreadable", "toc_unreadable"}

\* C10: the run ends with status 0 exactly when the output was written; every
\* argument error and fatal condition ends it with a non-zero status; a fatal
\* condition before the TOC pass leaves no outline node and no output; warned
\* lines do not change the status.
C10_ExitStatus ==
    /\ pc # "exit" => ~written
    /\ pc = "exit" =>
         /\ status = 0 <=> written
         /\ error # "none" => status # 0
         /\ error = "none" => status = 0
         /\ error \in EarlyErrors => outline = <<>> /\ ~written

\* a successful run that printed a warning
C10_Witness ==
    /\ pc = "exit"
    /\ status = 0
    /\ written
    /\ warnings # <<>>
    /\ outline # <<>>
-----------------------------------------------------------------------------
(* C11 *)

\* C11: indent_unit changes in one step only, the detection step, which runs
\* before any line is consumed and sets it to the unit of the widths of all
\* non-blank lines of the file (lines skipped later included); every step of
\* the line pass keeps it.
C11_UnitComputedOnce ==
    [][/\ indent_unit' # indent_unit =>
            /\ pc = "detect"
            /\ pc' = "loop"
            /\ indent_unit = 0
            /\ line_num' = 0
            /\ outline' = <<>>
            /\ warnings' = <<>>
       /\ pc = "loop" =>
            /\ indent_unit' = indent_unit
            /\ indent_unit = ExpectedUnit
       /\ indent_unit = 0 => line_num = 0 /\ outline = <<>>]_vars

\* the only indented line of the file was skipped as malformed, and its width
\* (1) is the unit, not the default
C11_Witness ==
    /\ pc = "loop"
    /\ line_num = Len(lines)
    /\ indent_unit = 1
    /\ outline # <<>>
    /\ \E n \in 1..Len(lines) :
         /\ IsMalformedLine(n)
         /\ indent_size_of(lines[n]) = 1
         /\ \A m \in 1..Len(lines) : m # n => indent_size_of(lines[m]) = 0
-----------------------------------------------------------------------------
(* C12 *)

\* the accepted lines among the first k lines of the input file
AcceptedUpTo(k) == {n \in 1..k : IsAcceptedLine(n)}

\* everything before the last token of the content, trimmed
TitleOfLine(n) ==
    LET s == Content(n)
        p == Max({q \in 1..Len(s) : IsSpace(s[q])})
    IN strip(SubSeq(s, 1, p - 1))

\* the nodes the first k lines must yield, as a function of the input file,
\* the offset and the page count alone: one node per accepted line, in line
\* order, under the nearest earlier node of a smaller level
ExpectedOutline(k) ==
    LET acc == AcceptedUpTo(k)
        unit == ExpectedUnit
        nth == [i \in 1..Cardinality(acc) |->
                  CHOOSE n \in acc : Cardinality({m \in acc : m <= n}) = i]
        lvl == [i \in 1..Cardinality(acc) |-> indent_size_of(lines[nth[i]]) \div unit]
    IN [i \in 1..Cardinality(acc) |->
          LET shallower == {j \in 1..(i - 1) : lvl[j] < lvl[i]}
          IN [title  |-> TitleOfLine(nth[i]),
              page   |-> (LogicalPage(nth[i]) - 1) + argv_offset,
              parent |-> IF shallower = {} THEN None ELSE Max(shallower)]]

\* C12: the sequence of node creations issued after k lines (titles, page
\* indices, parents) is one fixed function of the TOC lines, the offset and
\* the page count, so two runs on the same inputs issue the same sequence.
C12_OutlineIsFunctionOfInputs ==
    (pc = "loop" \/ ReachedSave) =>
        /\ lines = toc_text
        /\ page_offset = argv_offset
        /\ total_pages = pdf_page_count
        /\ outline = ExpectedOutline(line_num)

\* a finished run with three nodes, the second nested and the third not
C12_Witness ==
    /\ ReachedSave
    /\ Len(outline) = 3
    /\ outline[2].parent = 1
    /\ outline[3].parent = None
    /\ outline = ExpectedOutline(Len(toc_text))
-----------------------------------------------------------------------------
(* C13 *)

\* the positions where a whitespace-separated token of s starts
TokenStarts(s) ==
    {i \in 1..Len(s) : ~IsSpace(s[i]) /\ (i = 1 \/ IsSpace(s[i - 1]))}

\* the last token of a trimmed, non-empty text
FinalToken(s) == SubSeq(s, Max(TokenStarts(s)), Len(s))

\* what precedes the last token, trimmed
BeforeFinalToken(s) == strip(SubSeq(s, 1, Max(TokenStarts(s)) - 1))

\* at least two tokens, the last made of digits only
TokensAccepted(s) ==
    /\ Cardinality(TokenStarts(s)) >= 2
    /\ \A q \in 1..Len(FinalToken(s)) : IsDigit(FinalToken(s)[q])

WarnedAs(n, kind) ==
    \E w \in 1..Len(warnings) : warnings[w] = [line |-> n, kind |-> kind]

NodesOfLine(n) == {i \in NodeIds : LineOfNode(i) = n}

\* C13: a consumed non-blank line passes the parser exactly when its trimmed
\* content has at least two tokens and the last is all digits; then the page
\* is that whole token and the title the trimmed text before it; any other
\* non-blank line is warned as malformed and yields no node and no stack entry.
C13_ParserAcceptsByTokens ==
    \A n \in 1..line_num :
        ~IsBlankLine(n) =>
            LET s == Content(n)
                index == (int(FinalToken(s)) - 1) + page_offset
            IN IF TokensAccepted(s)
               THEN /\ ~WarnedAs(n, "malformed")
                    /\ \/ /\ WarnedAs(n, "out_of_range")
                          /\ NodesOfLine(n) = {}
                          /\ index < 0 \/ index >= total_pages
                       \/ /\ ~WarnedAs(n, "out_of_range")
                          /\ Cardinality(NodesOfLine(n)) = 1
                          /\ \A i \in NodesOfLine(n) :
                                /\ outline[i].title = BeforeFinalToken(s)
                                /\ outline[i].page = index
               ELSE /\ WarnedAs(n, "malformed")
                    /\ NodesOfLine(n) = {}
                    /\ \A e \in 1..Len(parent_stack) :
                          LineOfNode(parent_stack[e][1]) # n

\* a title that itself ends in a number: "a 1 1" gives title "a 1", page 1
C13_Witness ==
    /\ Len(outline) = 1
    /\ lines[LineOfNode(1)] = <<"a", " ", "1", " ", "1", "\n">>
    /\ outline[1].title = <<"a", " ", "1">>
    /\ outline[1].page = page_offset
-----------------------------------------------------------------------------
(* C14 *)

StackNode(e) == parent_stack[e][1]

\* C14: once a node exists, parent_stack read bottom to top is the path from a
\* root to the most recently created node: the bottom is a root, each entry's
\* node is the parent of the node above it, each entry carries its node's
\* level, and the top is the last node; before that the stack is empty.
C14_StackIsPathOfLastNode ==
    IF outline = <<>> THEN parent_stack = <<>>
    ELSE /\ parent_stack # <<>>
         /\ parent_stack[Len(parent_stack)] =
               <<Len(outline), LevelOfNode(Len(outline))>>
         /\ outline[StackNode(1)].parent = None
         /\ \A e \in 1..(Len(parent_stack) - 1) :
               outline[StackNode(e + 1)].parent = StackNode(e)
         /\ \A e \in 1..Len(parent_stack) :
               /\ StackNode(e) \in NodeIds
               /\ parent_stack[e][2] = LevelOfNode(StackNode(e))

\* after levels [0,1,1,2] the stack holds nodes 1, 3 and 4
C14_Witness ==
    /\ Levels = <<0, 1, 1, 2>>
    /\ Len(parent_stack) = 3
    /\ StackNode(1) = 1
    /\ StackNode(2) = 3
    /\ StackNode(3) = 4

-----------------------------------------------------------------------------
(* C15 *)

HasLeadingWhitespace(n) == IsSpace(lines[n][1])

-----------------------------------------------------------------------------
(* C16 *)

\* C16: the depth of every node is at most its level, a child's level exceeds
\* its parent's (so levels strictly increase along a root-to-node path), a
\* level-0 node is a root, and parent_stack holds at most (top level + 1)
\* entries.
C16_DepthBoundedByLevel ==
    /\ \A i \in NodeIds :
         /\ Depth(i) <= LevelOfNode(i)
         /\ outline[i].parent # None =>
               LevelOfNode(outline[i].parent) < LevelOfNode(i)
         /\ LevelOfNode(i) = 0 => outline[i].parent = None
    /\ parent_stack # <<>> =>
         Len(parent_stack) <= parent_stack[Len(parent_stack)][2] + 1

\* a dedent by two levels: after levels [0,1,2,0] the stack holds one entry
C16_Witness ==
    /\ Levels = <<0, 1, 2, 0>>
    /\ Len(parent_stack) = 1
    /\ Depth(3) = 2
    /\ Depth(4) = 0

=============================================================================
